---- MODULE Spec2Model ----
(***************************************************************************)
(* Model of the receipt tracker server (src/server.js): storage backend    *)
(* selection, link creation, image upload, the three entry points that     *)
(* record events (viewer visit, device facts, location facts), the geo     *)
(* lookup geoFromIP, the ingestion operation logEvent and the listing of   *)
(* the events of a link.                                                   *)
(*                                                                         *)
(* JavaScript values.  null and undefined are both the empty tuple Null    *)
(* (the code only ever tests them with `!= null`, `??`, `||` and `?.`);    *)
(* a present value x is the one-element tuple Some(x).  Values whose       *)
(* JavaScript type matters (request body fields, JSON fields, results of   *)
(* Number()) are tagged tuples <<"number", n>>, <<"string", s>>,           *)
(* <<"NaN">>, <<"undefined">>.  A character string that the code takes     *)
(* apart (an IP address, the "loc" field) is a tuple of its pieces.        *)
(*                                                                         *)
(* Columns of the events table that are computed by the third-party        *)
(* user-agent libraries (ua, device_family, os_family, browser_family,     *)
(* is_bot) and referer are left out of the rows: no operation of the       *)
(* server reads them back into a decision.                                 *)
(***************************************************************************)
EXTENDS Integers, Sequences, FiniteSets, TLC

\* ------------------------------------------------------------------ bounds
\* number of logEvent calls that may be in flight together (SpecConc)
MaxCalls == 2
\* longest "loc" string, in characters, the geo service answers with
MaxLocLen == 3
\* rows of the stored tables GET /api/events is tried on, below the large ones
MaxRows == 3

\* ------------------------------------------------------------ JS values
Null == <<>>
Some(x) == <<x>>
Undefined == <<"undefined">>
Num(n) == <<"number", n>>
Str(s) == <<"string", s>>
NaN == <<"NaN">>
TypeOf(v) == v[1]

RECURSIVE SeqsUpTo(_, _)
SeqsUpTo(S, n) ==
  IF n = 0 THEN {<<>>}
  ELSE LET shorter == SeqsUpTo(S, n - 1)
       IN shorter \cup {Append(s, x) : s \in {t \in shorter : Len(t) = n - 1}, x \in S}

\* ------------------------------------------------------- IP addresses
\* An address is the tuple of its pieces; '' is the empty tuple.
IpNone == <<>>
IpV6Loopback == <<"::1">>
IpMappedLoopback == <<"::ffff:", "127.", "0.0.1">>
IpV4Loopback == <<"127.", "0.0.1">>
IpPrivate10 == <<"10.", "0.0.5">>
IpPrivate192 == <<"192.168.", "1.9">>
IpMappedPrivate == <<"::ffff:", "10.", "0.0.5">>
IpPublic == <<"8.", "8.8.8">>

AllIPs == {IpNone, IpV6Loopback, IpMappedLoopback, IpV4Loopback, IpPrivate10,
           IpPrivate192, IpMappedPrivate, IpPublic}

\* String.prototype.startsWith on the pieces
StartsWith(s, p) == Len(p) <= Len(s) /\ SubSeq(s, 1, Len(p)) = p

\* --------------------------------------------------------------- clientIP
\* req.headers['x-forwarded-for']?.split(',')[0]?.trim() || req.socket.remoteAddress || ''
\* xff is the header already split into its trimmed hops (no header: no hops);
\* an empty first hop is the empty string, which is falsy.
clientIP(req) ==
  LET first == IF Len(req.xff) = 0 THEN IpNone ELSE Head(req.xff)
  IN IF first # IpNone THEN first
     ELSE IF req.remote # IpNone THEN req.remote
     ELSE IpNone

\* ------------------------------------------------------------- geoFromIP
\* accuracyRadiusM of every IP enrichment
IpAccuracyRadiusM == 25000

\* the guard before any request is built: no fetch for these addresses
GeoShortCircuit(ip) ==
  ip = IpNone \/ ip = IpV6Loopback \/ StartsWith(ip, <<"::ffff:", "127.">>)

\* String.prototype.split(',') on a tuple of characters
RECURSIVE SplitComma(_)
SplitComma(s) ==
  IF \A i \in 1..Len(s) : s[i] # ","
  THEN <<s>>
  ELSE LET k == CHOOSE i \in 1..Len(s) : s[i] = "," /\ \A j \in 1..(i - 1) : s[j] # ","
       IN <<SubSeq(s, 1, k - 1)>> \o SplitComma(SubSeq(s, k + 1, Len(s)))

DigitValue(c) == CASE c = "0" -> 0 [] c = "4" -> 4 [] c = "7" -> 7 [] OTHER -> -1

RECURSIVE Decimal(_)
Decimal(s) == IF Len(s) = 0 THEN 0 ELSE 10 * Decimal(SubSeq(s, 1, Len(s) - 1)) + DigitValue(s[Len(s)])

\* Number(string): the empty string is 0, a run of digits is its value,
\* anything else is NaN
NumberOf(s) ==
  IF Len(s) = 0 THEN Num(0)
  ELSE IF \A i \in 1..Len(s) : DigitValue(s[i]) >= 0 THEN Num(Decimal(s))
  ELSE NaN

\* Number.isFinite(x) ? x : null, where x is undefined when the array is short
FiniteOrNull(parts, i) ==
  IF i > Len(parts) THEN Null
  ELSE IF TypeOf(NumberOf(parts[i])) = "number" THEN Some(NumberOf(parts[i])[2])
  ELSE Null

\* v || null on an optional string
OrNull(v) == IF v = Null \/ v = Some("") THEN Null ELSE v

\* the catch of geoFromIP (GeoCatchRethrow: a catch that rethrows)
GeoCatchRethrow == [threw |-> TRUE, ipg |-> Null]
GeoCatch == [threw |-> FALSE, ipg |-> Null]

GeoReturn(ipg) == [threw |-> FALSE, ipg |-> ipg]

\* geoFromIP from the answer of the fetch on: the result, and whether the
\* function let an exception out
GeoFromResponse(ip, resp) ==
  IF resp.kind \in {"timeout", "neterror"} THEN GeoCatch        \* fetch rejects
  ELSE IF resp.kind = "status" THEN GeoReturn(Null)            \* !r.ok
  ELSE IF resp.kind = "badjson" THEN GeoCatch                  \* r.json() rejects
  ELSE IF resp.j.isNull THEN GeoCatch                          \* j.loc of null: TypeError
  ELSE IF TypeOf(resp.j.loc) = "number" THEN GeoCatch          \* (5).split: TypeError
  ELSE LET locStr == IF TypeOf(resp.j.loc) = "string" THEN resp.j.loc[2] ELSE <<>>
           parts == SplitComma(locStr)
       IN GeoReturn(Some([
            ip |-> IF resp.j.ip = Null THEN ip ELSE resp.j.ip[1],
            city |-> OrNull(resp.j.city),
            region |-> OrNull(resp.j.region),
            country |-> OrNull(resp.j.country),
            asn |-> OrNull(resp.j.org),
            lat |-> FiniteOrNull(parts, 1),
            lon |-> FiniteOrNull(parts, 2),
            accuracyRadiusM |-> IpAccuracyRadiusM]))

\* ------------------------------------------------- request bodies, extra
\* A JSON object is the tuple of its <<key, value>> pairs in insertion order.
RECURSIVE Get(_, _)
Get(obj, k) ==
  IF Len(obj) = 0 THEN Undefined
  ELSE IF Head(obj)[1] = k THEN Head(obj)[2]
  ELSE Get(Tail(obj), k)

\* typeof v === 'number' ? v : null
NumberOrNull(v) == IF TypeOf(v) = "number" THEN v ELSE <<"null">>

\* v != null
NotNullish(v) == TypeOf(v) \notin {"null", "undefined"}

\* the optional number a column holds: Some(n) or Null
Column(v) == IF TypeOf(v) = "number" THEN Some(v[2]) ELSE Null

\* extra of POST /api/collect/location
LocationExtra(body) ==
  LET lat == NumberOrNull(Get(body, "latitude"))
      lon == NumberOrNull(Get(body, "longitude"))
      acc == NumberOrNull(Get(body, "accuracy"))
      src == IF TypeOf(Get(body, "accuracySource")) = "string"
             THEN Get(body, "accuracySource") ELSE Str("browser")
  IN << <<"latitude", lat>>, <<"longitude", lon>>, <<"accuracy", acc>>,
        <<"accuracySource", src>>, <<"accuracyRadiusM", acc>> >>

\* extra of POST /api/collect/device
DeviceExtra(body) == << <<"deviceMeta", <<"object", body>> >> >>

\* extra of GET /:slug (the default parameter)
ViewExtra == <<>>

\* JSON.stringify: the tuple of the tokens of the text, each token a tuple
RECURSIVE Stringify(_)
Stringify(v) ==
  CASE TypeOf(v) = "object" ->
         LET kept == SelectSeq(v[2], LAMBDA kv : TypeOf(kv[2]) # "undefined")
             Member(i) == (IF i = 1 THEN <<>> ELSE << <<",">> >>)
                          \o << Str(kept[i][1]), <<":">> >> \o Stringify(kept[i][2])
             F[i \in 0..Len(kept)] == IF i = 0 THEN <<>> ELSE F[i - 1] \o Member(i)
         IN << <<"{">> >> \o F[Len(kept)] \o << <<"}">> >>
    [] OTHER -> <<v>>

\* ---------------------------------------------------------------- logEvent
\* the five reconciled columns (server.js 216-220) and the payload (222)
LatitudeIpFirst(extra, ipg) ==
  IF ipg # Null /\ ipg[1].lat # Null THEN ipg[1].lat
  ELSE Column(Get(extra, "latitude"))
Latitude(extra, ipg) ==
  IF NotNullish(Get(extra, "latitude")) THEN Column(Get(extra, "latitude"))
  ELSE IF ipg = Null THEN Null ELSE ipg[1].lat

Longitude(extra, ipg) ==
  IF NotNullish(Get(extra, "longitude")) THEN Column(Get(extra, "longitude"))
  ELSE IF ipg = Null THEN Null ELSE ipg[1].lon

AccuracyM(extra) ==
  IF NotNullish(Get(extra, "accuracy")) THEN Column(Get(extra, "accuracy")) ELSE Null

AccuracySource(extra, ipg) ==
  IF NotNullish(Get(extra, "latitude")) THEN Some("browser")
  ELSE IF ipg # Null THEN Some("ip") ELSE Null

AccuracyRadiusM(extra, ipg) ==
  IF NotNullish(Get(extra, "accuracy")) THEN Column(Get(extra, "accuracy"))
  ELSE IF ipg = Null THEN Null ELSE Some(ipg[1].accuracyRadiusM)

Payload(extra) == IF Len(extra) > 0 THEN Some(Stringify(<<"object", extra>>)) ELSE Null

\* params of the INSERT (server.js 228-237)
EventParams(link_slug, type, ip, ipg, extra) ==
  [ link_slug |-> link_slug,
    type |-> type,
    ip |-> IF ip = IpNone THEN Null ELSE Some(ip),
    ip_asn |-> IF ipg = Null THEN Null ELSE ipg[1].asn,
    country |-> IF ipg = Null THEN Null ELSE ipg[1].country,
    region |-> IF ipg = Null THEN Null ELSE ipg[1].region,
    city |-> IF ipg = Null THEN Null ELSE ipg[1].city,
    latitude |-> Latitude(extra, ipg),
    longitude |-> Longitude(extra, ipg),
    accuracy_m |-> AccuracyM(extra),
    accuracy_source |-> AccuracySource(extra, ipg),
    accuracy_radius_m |-> AccuracyRadiusM(extra, ipg),
    payload |-> Payload(extra) ]

\* what the catch of logEvent leaves the call in (LogEventCatchRethrow: a
\* catch that rethrows)
LogEventCatchRethrow == "threw"
LogEventCatch == "returned"

\* ------------------------------------------------------------------ storage
\* which engine dbQuery / dbExecute dispatch to (server.js 145-164)
Backend(type, pool, db) ==
  IF type = "sqlite" /\ db # Null THEN "sqlite"
  ELSE IF type = "mysql" /\ pool # Null THEN "mysql"
  ELSE "none"

\* FOREIGN KEY (link_slug) REFERENCES links(slug), link_slug NOT NULL
ForeignKeyUnchecked(link_slug, linkTable) == TRUE
ForeignKeyOk(link_slug, linkTable) ==
  TypeOf(link_slug) = "string" /\ link_slug[2] \in DOMAIN linkTable

\* INSERT INTO events: a new row under the next surrogate id
InsertEventBySlug(table, row) ==
  IF \E i \in 1..Len(table) : table[i].link_slug = row.link_slug
  THEN [i \in 1..Len(table) |-> IF table[i].link_slug = row.link_slug THEN row ELSE table[i]]
  ELSE Append(table, row)
InsertEvent(table, row) == Append(table, row)

\* initDatabase after the probe (server.js 130-139)
SelectAfterProbeNoFallback(probeOk) ==
  IF probeOk THEN [dbType |-> "mysql", mysqlPool |-> Some("pool"), sqliteDb |-> Null]
  ELSE [dbType |-> "mysql", mysqlPool |-> Null, sqliteDb |-> Null]
SelectAfterProbe(probeOk) ==
  IF probeOk THEN [dbType |-> "mysql", mysqlPool |-> Some("pool"), sqliteDb |-> Null]
  ELSE [dbType |-> "sqlite", mysqlPool |-> Null, sqliteDb |-> Some("receipt.db")]
\* -------------------------------------------------------------------- state
VARIABLES
  env,        \* process.env.DB_TYPE: Null when unset
  initPc,     \* initDatabase: "load", "probing" (awaiting SELECT 1), "done"
  probe,      \* outcome of the MySQL connectivity probe: "none", "ok", "failed"
  dbType,     \* let dbType
  mysqlPool,  \* let mysqlPool
  sqliteDb,   \* let sqliteDb
  links,      \* table links: slug -> [title, image_path]
  events,     \* table events, in surrogate id order (the columns of the INSERT)
  occurredAt, \* column occurred_at of table events, row by row
  call,       \* the requests that record an event, one per id
  reply       \* the last answer of an admin handler (links, upload, events)

vars == <<env, initPc, probe, dbType, mysqlPool, sqliteDb, links, events, occurredAt,
          call, reply>>

Calls == 1..MaxCalls
Slugs == {"a", "b"}

\* a request that has not arrived yet
Idle ==
  [ pc |-> "idle", slug |-> Undefined, type |-> "none", ip |-> IpNone, extra |-> <<>>,
    existed |-> FALSE, fetched |-> FALSE, resp |-> Null, ipg |-> Null,
    logged |-> "none", row |-> 0,
    traced |-> FALSE, begun |-> 0, settled |-> 0, issued |-> 0 ]

\* history of a traced call: its place among the calls that have taken the
\* step so far; step is "begun" (logEvent entered), "settled" (geoFromIP came
\* back) or "issued" (dbExecute of the INSERT ran); 0 is not yet, or untraced
Rank(calls, c, step) ==
  IF calls[c].traced THEN 1 + Cardinality({d \in DOMAIN calls : calls[d][step] > 0})
  ELSE 0

\* answers of the admin handlers: the status, and of the body the slug
\* (POST /api/links), the image path (POST /api/upload) or the rows, as the
\* ids of the rows of table events they were read from (GET /api/events)
Reply(op, status, slug, image, rows) ==
  [op |-> op, status |-> status, slug |-> slug, image |-> image, rows |-> rows]
NoReply == Reply("none", 0, Null, Null, <<>>)

\* let dbType = process.env.DB_TYPE || 'mysql'
InitialDbType(e) == IF e = Null \/ e = Some("") THEN "mysql" ELSE e[1]

EnvValues == {Null, Some("sqlite"), Some("mysql"), Some("postgres")}

Init ==
  /\ env \in EnvValues
  /\ initPc = "load"
  /\ probe = "none"
  /\ dbType = InitialDbType(env)
  /\ mysqlPool = Null
  /\ sqliteDb = Null
  /\ links = <<>>
  /\ events = <<>>
  /\ occurredAt = <<>>
  /\ call = [c \in Calls |-> Idle]
  /\ reply = NoReply

\* app.listen comes after the call of initDatabase() in the module body
Listening == initPc # "load"

\* ----------------------------------------------------------- initDatabase
\* the synchronous part, up to the await of the probe
InitDatabase ==
  /\ initPc = "load"
  /\ IF env = Some("sqlite")
     THEN /\ dbType' = "sqlite"
          /\ sqliteDb' = Some("receipt.db")
          /\ initPc' = "done"
     ELSE /\ initPc' = "probing"
          /\ UNCHANGED <<dbType, sqliteDb>>
  /\ UNCHANGED <<env, probe, mysqlPool, links, events, occurredAt, call, reply>>

\* pool.execute('SELECT 1') settles
ProbeSettles(probeOk) ==
  /\ initPc = "probing"
  /\ LET sel == SelectAfterProbe(probeOk)
     IN /\ dbType' = sel.dbType
        /\ mysqlPool' = sel.mysqlPool
        /\ sqliteDb' = sel.sqliteDb
  /\ probe' = IF probeOk THEN "ok" ELSE "failed"
  /\ initPc' = "done"
  /\ UNCHANGED <<env, links, events, occurredAt, call, reply>>

\* ------------------------------------------------------- POST /api/links
CreateLink(slug, title) ==
  /\ Listening
  /\ IF Backend(dbType, mysqlPool, sqliteDb) = "none" \/ slug \in DOMAIN links
     THEN \* dbExecute throws (not initialized, or UNIQUE slug): 500
          /\ reply' = Reply("links", 500, Null, Null, <<>>)
          /\ links' = links
     ELSE /\ links' = [s \in DOMAIN links \cup {slug} |->
                       IF s = slug THEN [title |-> title, image_path |-> Null]
                       ELSE links[s]]
          /\ reply' = Reply("links", 200, Some(slug), Null, <<>>)
  /\ UNCHANGED <<env, initPc, probe, dbType, mysqlPool, sqliteDb, events, occurredAt, call>>

\* UPDATE links SET image_path=? WHERE slug=? (server.js 264): every row of
\* that slug takes the path, and a slug with no row updates nothing
UpdateImage(table, slug, p) ==
  [s \in DOMAIN table |->
     IF s = slug THEN [table[s] EXCEPT !.image_path = Some(p)] ELSE table[s]]

\* POST /api/upload (server.js 259-270); slug is the form field (Null when
\* absent or empty), file the stored name multer gave the image (Null when
\* the form carries no image)
Upload(slug, file) ==
  /\ Listening
  /\ IF slug = Null \/ file = Null
     THEN /\ reply' = Reply("upload", 400, Null, Null, <<>>)
          /\ links' = links
     ELSE IF Backend(dbType, mysqlPool, sqliteDb) = "none"
     THEN /\ reply' = Reply("upload", 500, Null, Null, <<>>)
          /\ links' = links
     ELSE /\ links' = UpdateImage(links, slug[1], <<"/uploads/", file[1]>>)
          /\ reply' = Reply("upload", 200, Null, Some(<<"/uploads/", file[1]>>), <<>>)
  /\ UNCHANGED <<env, initPc, probe, dbType, mysqlPool, sqliteDb, events, occurredAt, call>>

\* GET /api/events (server.js 528-543)
\* LIMIT 1000
ListLimit == 1000

\* WHERE link_slug=?: the ids of the rows of that link (as a scan from the
\* last row to the first finds them; ORDER BY decides the order of the result)
RowsOfSlug(table, slug) ==
  SelectSeq([i \in 1..Len(table) |-> Len(table) + 1 - i],
            LAMBDA i : table[i].link_slug = Str(slug))

\* ORDER BY occurred_at DESC: the later row first; the engine is free in the
\* order of rows of one second, ascending is whether it keeps them in id order
OrderByOccurredAt(ids, times, ascending) ==
  SortSeq(ids, LAMBDA i, j : \/ times[i] > times[j]
                             \/ times[i] = times[j] /\ (IF ascending THEN i < j ELSE i > j))

\* LIMIT n
LimitNone(rows, n) == rows
Limit(rows, n) == IF Len(rows) > n THEN SubSeq(rows, 1, n) ELSE rows

\* the SELECT of GET /api/events, as the ids of the rows it returns
ListEvents(table, times, slug, ascending) ==
  Limit(OrderByOccurredAt(RowsOfSlug(table, slug), times, ascending), ListLimit)

\* slug is req.query.slug (Null when absent or empty)
ListEventsReq(slug, ascending) ==
  /\ Listening
  /\ reply' = IF slug = Null THEN Reply("events", 400, Null, Null, <<>>)
              ELSE IF Backend(dbType, mysqlPool, sqliteDb) = "none"
              THEN Reply("events", 500, Null, Null, <<>>)
              ELSE Reply("events", 200, slug, Null,
                         ListEvents(events, occurredAt, slug[1], ascending))
  /\ UNCHANGED <<env, initPc, probe, dbType, mysqlPool, sqliteDb, links, events,
                 occurredAt, call>>

\* ---------------------------------------------------------------- logEvent
\* logEvent up to its first suspension: either geoFromIP returns null without
\* a request (then the insert is next) or the fetch is issued
LogEventBeginNoAwait(c, link_slug, type, req, extra) ==
  LET ip == clientIP(req)
      base == [call[c] EXCEPT !.slug = link_slug, !.type = type, !.ip = ip, !.extra = extra,
                           !.existed = (TypeOf(link_slug) = "string"
                                        /\ link_slug[2] \in DOMAIN links),
                           !.begun = Rank(call, c, "begun")]
  IN call' = [call EXCEPT ![c] =
       IF GeoShortCircuit(ip)
       THEN [base EXCEPT !.pc = "insert", !.settled = Rank(call, c, "settled")]
       ELSE [base EXCEPT !.pc = "insert", !.fetched = TRUE]]
LogEventBegin(c, link_slug, type, req, extra) ==
  LET ip == clientIP(req)
      base == [call[c] EXCEPT !.slug = link_slug, !.type = type, !.ip = ip, !.extra = extra,
                           !.existed = (TypeOf(link_slug) = "string"
                                        /\ link_slug[2] \in DOMAIN links),
                           !.begun = Rank(call, c, "begun")]
  IN call' = [call EXCEPT ![c] =
       IF GeoShortCircuit(ip)
       THEN [base EXCEPT !.pc = "insert", !.settled = Rank(call, c, "settled")]
       ELSE [base EXCEPT !.pc = "fetch", !.fetched = TRUE]]

\* GET /:slug: 500 when dbQuery throws, 404 when no row, else logEvent
ViewerVisit(c, slug, req) ==
  /\ Listening
  /\ call[c].pc = "idle"
  /\ IF Backend(dbType, mysqlPool, sqliteDb) = "none"
     THEN call' = [call EXCEPT ![c] = [@ EXCEPT !.pc = "status500", !.slug = Str(slug),
                                               !.type = "view"]]
     ELSE IF slug \notin DOMAIN links
     THEN call' = [call EXCEPT ![c] = [@ EXCEPT !.pc = "status404", !.slug = Str(slug),
                                               !.type = "view"]]
     ELSE LogEventBegin(c, Str(slug), "view", req, ViewExtra)
  /\ UNCHANGED <<env, initPc, probe, dbType, mysqlPool, sqliteDb, links, events, occurredAt, reply>>

\* POST /api/collect/device
CollectDevice(c, body, req) ==
  /\ Listening
  /\ call[c].pc = "idle"
  /\ LogEventBegin(c, Get(body, "slug"), "device", req, DeviceExtra(body))
  /\ UNCHANGED <<env, initPc, probe, dbType, mysqlPool, sqliteDb, links, events, occurredAt, reply>>

\* POST /api/collect/location
CollectLocation(c, body, req) ==
  /\ Listening
  /\ call[c].pc = "idle"
  /\ LogEventBegin(c, Get(body, "slug"), "location", req, LocationExtra(body))
  /\ UNCHANGED <<env, initPc, probe, dbType, mysqlPool, sqliteDb, links, events, occurredAt, reply>>

\* the fetch of geoFromIP settles with resp; logEvent goes on to the insert,
\* or to its catch when geoFromIP lets an exception out
GeoSettles(c, resp) ==
  /\ call[c].pc = "fetch"
  /\ LET g == GeoFromResponse(call[c].ip, resp)
     IN call' = [call EXCEPT ![c] =
          IF g.threw
          THEN [@ EXCEPT !.pc = LogEventCatch, !.resp = Some(resp), !.logged = "geo",
                         !.settled = Rank(call, c, "settled")]
          ELSE [@ EXCEPT !.pc = "insert", !.resp = Some(resp), !.ipg = g.ipg,
                         !.settled = Rank(call, c, "settled")]]
  /\ UNCHANGED <<env, initPc, probe, dbType, mysqlPool, sqliteDb, links, events, occurredAt, reply>>

\* occurred_at DEFAULT CURRENT_TIMESTAMP: the second of the insert, which is
\* the second of the last insert or a later one (the first row's is 1)
Timestamp(times, later) ==
  IF Len(times) = 0 THEN 1
  ELSE IF later THEN times[Len(times)] + 1 ELSE times[Len(times)]

\* await dbExecute(sql, params): engineOk is whether the engine carries the
\* statement out (it does not when the connection or the disk fails), later
\* whether the clock has moved on since the last insert
LogEventInsert(c, engineOk, later) ==
  /\ call[c].pc = "insert"
  /\ LET cl == call[c]
         params == EventParams(cl.slug, cl.type, cl.ip, cl.ipg, cl.extra)
         error == IF Backend(dbType, mysqlPool, sqliteDb) = "none"
                  THEN "Database not initialized"
                  ELSE IF ~ForeignKeyOk(cl.slug, links) THEN "constraint"
                  ELSE IF ~engineOk THEN "engine"
                  ELSE "none"
     IN IF error = "none"
        THEN /\ events' = InsertEvent(events, params)
             /\ occurredAt' = Append(occurredAt, Timestamp(occurredAt, later))
             /\ call' = [call EXCEPT ![c].pc = "returned", ![c].row = Len(events'),
                                     ![c].issued = Rank(call, c, "issued")]
        ELSE /\ events' = events
             /\ occurredAt' = occurredAt
             /\ call' = [call EXCEPT ![c].pc = LogEventCatch, ![c].logged = error,
                                     ![c].issued = Rank(call, c, "issued")]
  /\ UNCHANGED <<env, initPc, probe, dbType, mysqlPool, sqliteDb, links, reply>>

\* the handler after its await logEvent: the page or 204
Respond(c) ==
  /\ call[c].pc = "returned"
  /\ call' = [call EXCEPT ![c].pc = IF call[c].type = "view" THEN "status200" ELSE "status204"]
  /\ UNCHANGED <<env, initPc, probe, dbType, mysqlPool, sqliteDb, links, events, occurredAt, reply>>
\* ------------------------------------------------------------------ inputs
Request(xff, remote) == [xff |-> xff, remote |-> remote]

\* the body of a JSON answer of the geo service
GeoBody(ip, place, org, loc) ==
  [ isNull |-> FALSE, ip |-> ip, city |-> place, region |-> place, country |-> place,
    org |-> org, loc |-> loc ]
GeoJson(j) == [kind |-> "json", j |-> j]
GeoFailure(kind) == [kind |-> kind, j |-> [isNull |-> TRUE]]

LocChars == {"4", ",", "x"}
Loc47 == Str(<<"4", ",", "7">>)

\* answers that are not a well-formed body: the lookup fails or times out
FailedAnswers == {GeoFailure("timeout"), GeoFailure("neterror"), GeoFailure("status"),
                  GeoFailure("badjson"), GeoJson([isNull |-> TRUE])}

\* requests whose client address is '::1' and a public one
Requests ==
  { Request(<<>>, IpV6Loopback), Request(<<IpPublic, IpPrivate10>>, IpV6Loopback) }

Answers ==
  { GeoFailure("timeout"), GeoFailure("status"),
    GeoJson(GeoBody(Some(IpPublic), Some("US"), Some("AS1"), Loc47)),
    GeoJson(GeoBody(Null, Null, Null, Str(<<"x">>))) }

SlugFields == {<<>>} \cup {<< <<"slug", Str(s)>> >> : s \in Slugs}

DeviceBodies ==
  { f \o m : f \in SlugFields, m \in {<<>>, << <<"platform", Str("Linux")>> >>} }

LocationBodies ==
  { f \o << <<"latitude", lat>>, <<"longitude", lon>>, <<"accuracy", acc>> >> \o src :
      f \in SlugFields,
      lat \in {Undefined, Num(0), Str("37")},
      lon \in {Undefined, Num(-122)},
      acc \in {Undefined, Num(15)},
      src \in {<< <<"accuracySource", Str("gps_or_wifi")>> >>} }

Titles == {Null, Some("Receipt")}

\* ------------------------------------------- the server, one request at a time
Next ==
  \/ InitDatabase
  \/ \E probeOk \in BOOLEAN : ProbeSettles(probeOk)
  \/ \E slug \in Slugs, title \in Titles : CreateLink(slug, title)
  \/ \E slug \in Slugs, req \in Requests : ViewerVisit(1, slug, req)
  \/ \E body \in DeviceBodies, req \in Requests : CollectDevice(1, body, req)
  \/ \E body \in LocationBodies, req \in Requests : CollectLocation(1, body, req)
  \/ \E resp \in Answers : GeoSettles(1, resp)
  \/ \E engineOk, later \in BOOLEAN : LogEventInsert(1, engineOk, later)
  \/ Respond(1)

Spec == Init /\ [][Next]_vars

\* ------------------------------ a server whose backend is selected, one link
InitReady ==
  /\ env = Null
  /\ initPc = "done"
  /\ probe \in {"ok", "failed"}
  /\ dbType = SelectAfterProbe(probe = "ok").dbType
  /\ mysqlPool = SelectAfterProbe(probe = "ok").mysqlPool
  /\ sqliteDb = SelectAfterProbe(probe = "ok").sqliteDb
  /\ links = [s \in {"a"} |-> [title |-> Null, image_path |-> Null]]
  /\ events = <<>>
  /\ occurredAt = <<>>
  /\ call = [c \in Calls |-> Idle]
  /\ reply = NoReply

\* ------------------------------------ geoFromIP on every address and answer
GeoRequests ==
  {Request(<<>>, ip) : ip \in AllIPs} \cup {Request(<<ip>>, IpV6Loopback) : ip \in AllIPs}

LocValues ==
  {Undefined, Num(5)} \cup {Str(s) : s \in SeqsUpTo(LocChars, MaxLocLen)}

GeoAnswers ==
  FailedAnswers
  \cup {GeoJson(GeoBody(Some(IpPublic), Some("US"), Some("AS1"), loc)) : loc \in LocValues}
  \cup {GeoJson(GeoBody(Null, Null, Null, Undefined))}

NextGeo ==
  \/ \E req \in GeoRequests : ViewerVisit(1, "a", req)
  \/ \E resp \in GeoAnswers : GeoSettles(1, resp)
  \/ \E later \in BOOLEAN : LogEventInsert(1, TRUE, later)
  \/ Respond(1)

SpecGeo == InitReady /\ [][NextGeo]_vars

\* --------------------------------- concurrent logEvent calls for one link
ConcRequest == Request(<<IpPublic>>, IpV6Loopback)
ConcDeviceBody == << <<"slug", Str("a")>>, <<"platform", Str("Linux")>> >>
ConcLocationBody ==
  << <<"slug", Str("a")>>, <<"latitude", Num(37)>>, <<"longitude", Num(-122)>>,
     <<"accuracy", Num(15)>> >>
ConcAnswers ==
  {GeoFailure("timeout"), GeoJson(GeoBody(Some(IpPublic), Some("US"), Some("AS1"), Loc47))}

NextConc ==
  \/ \E c \in Calls : ViewerVisit(c, "a", ConcRequest)
  \/ \E c \in Calls : CollectDevice(c, ConcDeviceBody, ConcRequest)
  \/ \E c \in Calls : CollectLocation(c, ConcLocationBody, ConcRequest)
  \/ \E c \in Calls, resp \in ConcAnswers : GeoSettles(c, resp)
  \/ \E c \in Calls, engineOk, later \in BOOLEAN : LogEventInsert(c, engineOk, later)
  \/ \E c \in Calls : Respond(c)

SpecConc == InitReady /\ [][NextConc]_vars
\* ================================================================== claims
\* ------------------- the order of the steps of concurrent calls for one link
InitOrder ==
  /\ env = Null
  /\ initPc = "done"
  /\ probe \in {"ok", "failed"}
  /\ dbType = SelectAfterProbe(probe = "ok").dbType
  /\ mysqlPool = SelectAfterProbe(probe = "ok").mysqlPool
  /\ sqliteDb = SelectAfterProbe(probe = "ok").sqliteDb
  /\ links = [s \in {"a"} |-> [title |-> Null, image_path |-> Null]]
  /\ events = <<>>
  /\ occurredAt = <<>>
  /\ call = [c \in Calls |-> [Idle EXCEPT !.traced = TRUE]]
  /\ reply = NoReply

NextOrder ==
  \/ \E c \in Calls : CollectDevice(c, ConcDeviceBody, ConcRequest)
  \/ \E c \in Calls, resp \in ConcAnswers : GeoSettles(c, resp)
  \/ \E c \in Calls, engineOk \in BOOLEAN : LogEventInsert(c, engineOk, TRUE)
  \/ \E c \in Calls : Respond(c)

SpecOrder == InitOrder /\ [][NextOrder]_vars

\* -------------------------- the admin handlers from the start of the process
SlugParams == {Null} \cup {Some(s) : s \in Slugs}

Files == {Null, Some("1.png"), Some("2.png")}

NextLinks ==
  \/ InitDatabase
  \/ \E probeOk \in BOOLEAN : ProbeSettles(probeOk)
  \/ \E slug \in Slugs, title \in Titles : CreateLink(slug, title)
  \/ \E slug \in SlugParams, file \in Files : Upload(slug, file)
  \/ \E slug \in SlugParams, ascending \in BOOLEAN : ListEventsReq(slug, ascending)

SpecLinks == Init /\ [][NextLinks]_vars

\* ------------------------------------------- GET /api/events on stored tables
\* the row a view of the link leaves
ViewRow(slug) == EventParams(Str(slug), "view", IpPublic, Null, ViewExtra)

\* tables of up to MaxRows rows: every assignment of links, every clock
SmallTables ==
  UNION { { [rows |-> [i \in 1..n |-> ViewRow(sl[i])], times |-> tm] :
              sl \in [1..n -> Slugs],
              tm \in { t \in [1..n -> 1..n] :
                         /\ n > 0 => t[1] = Timestamp(<<>>, FALSE)
                         /\ \A i \in 2..n : \E later \in BOOLEAN :
                               t[i] = Timestamp(SubSeq(t, 1, i - 1), later) } } :
          n \in 0..MaxRows }

\* tables around the limit, of one link (exactly ListLimit rows, one more)
\* or of two in turn (one more than ListLimit for "a", ListLimit for "b");
\* one second per row, or one per pair of rows
LargeTables ==
  { [rows |-> [i \in 1..n |-> ViewRow(IF n > ListLimit + 1 /\ i % 2 = 0 THEN "b" ELSE "a")],
     times |-> [i \in 1..n |-> IF pairs THEN (i + 1) \div 2 ELSE i]] :
      n \in {ListLimit, ListLimit + 1, 2 * ListLimit + 1}, pairs \in BOOLEAN }

InitList ==
  /\ env = Null
  /\ initPc = "done"
  /\ probe \in {"ok", "failed"}
  /\ dbType = SelectAfterProbe(probe = "ok").dbType
  /\ mysqlPool = SelectAfterProbe(probe = "ok").mysqlPool
  /\ sqliteDb = SelectAfterProbe(probe = "ok").sqliteDb
  /\ links = [s \in Slugs |-> [title |-> Null, image_path |-> Null]]
  /\ \E t \in SmallTables \cup LargeTables : events = t.rows /\ occurredAt = t.times
  /\ call = [c \in Calls |-> Idle]
  /\ reply = NoReply

NextList ==
  \/ \E slug \in SlugParams, ascending \in BOOLEAN : ListEventsReq(slug, ascending)

SpecList == InitList /\ [][NextList]_vars

\* ------------------------------------------------------------------ claims
Returned(c) == call[c].pc \in {"returned", "status200", "status204"}
Persisted(c) == call[c].row # 0
RowOf(c) == events[call[c].row]
ExtraLat(c) == Get(call[c].extra, "latitude")
ExtraLon(c) == Get(call[c].extra, "longitude")
ExtraAcc(c) == Get(call[c].extra, "accuracy")
\* the call supplied a numeric latitude and a numeric longitude
ClientCoords(c) == TypeOf(ExtraLat(c)) = "number" /\ TypeOf(ExtraLon(c)) = "number"
\* the call supplied neither coordinate
NoClientCoords(c) == TypeOf(ExtraLat(c)) # "number" /\ TypeOf(ExtraLon(c)) # "number"
StorageErrors == {"Database not initialized", "engine"}

\* C1: logEvent returns normally to its caller whatever its internal steps
\* do: it never leaves by an exception, and a call that logged a failure
\* (geo, constraint, engine, backend not initialized) has returned.
C1_LogEventReturnsNormally ==
  \A c \in Calls :
    /\ call[c].pc # "threw"
    /\ call[c].logged # "none" => Returned(c)

C1_Witness ==
  \E c \in Calls :
    /\ call[c].pc = "status204"
    /\ call[c].logged = "Database not initialized"

\* C2: every persisted event carries the coordinate triple of one source
\* only: the client's latitude, longitude and accuracy when the call carried
\* numeric latitude and longitude; else the enrichment's coordinates with the
\* radius 25000; else three nulls.
C2_FirstMatchWinsTriple ==
  \A c \in Calls : Persisted(c) =>
    LET e == RowOf(c)
        ipg == call[c].ipg
    IN IF ClientCoords(c)
       THEN /\ e.latitude = Column(ExtraLat(c))
            /\ e.longitude = Column(ExtraLon(c))
            /\ e.accuracy_radius_m = Column(ExtraAcc(c))
       ELSE IF ipg # Null
       THEN /\ e.latitude = ipg[1].lat
            /\ e.longitude = ipg[1].lon
            /\ e.accuracy_radius_m = Some(25000)
       ELSE /\ e.latitude = Null
            /\ e.longitude = Null
            /\ e.accuracy_radius_m = Null

\* C3: in every persisted event accuracy_source is 'browser' exactly when the
\* call supplied numeric latitude and longitude; otherwise it is 'ip' exactly
\* when the geo lookup returned an enrichment; otherwise it is null and so
\* are latitude and longitude.
C3_Provenance ==
  \A c \in Calls : Persisted(c) =>
    LET e == RowOf(c)
        ipg == call[c].ipg
    IN /\ (e.accuracy_source = Some("browser")) <=> ClientCoords(c)
       /\ ~ClientCoords(c) => ((e.accuracy_source = Some("ip")) <=> (ipg # Null))
       /\ (~ClientCoords(c) /\ ipg = Null) =>
            (e.accuracy_source = Null /\ e.latitude = Null /\ e.longitude = Null)
       /\ e.accuracy_source = Null => (e.latitude = Null /\ e.longitude = Null)

\* every result geoFromIP can hand to logEvent for the address ip
GeoOutcomes(ip) == {Null} \cup {GeoFromResponse(ip, r).ipg : r \in GeoAnswers}

\* C4: a persisted location event whose call carried numeric latitude,
\* longitude and accuracy has exactly those values, source 'browser' and the
\* supplied accuracy as radius, and would have them whatever the geo lookup
\* had returned.
C4_BrowserLocationIndependentOfIp ==
  \A c \in Calls :
    (Persisted(c) /\ call[c].type = "location" /\ ClientCoords(c)
       /\ TypeOf(ExtraAcc(c)) = "number") =>
      LET e == RowOf(c)
      IN /\ e.latitude = Some(ExtraLat(c)[2])
         /\ e.longitude = Some(ExtraLon(c)[2])
         /\ e.accuracy_source = Some("browser")
         /\ e.accuracy_radius_m = Some(ExtraAcc(c)[2])
         /\ \A ipg \in GeoOutcomes(call[c].ip) :
              LET other == EventParams(call[c].slug, call[c].type, call[c].ip, ipg,
                                       call[c].extra)
              IN /\ other.latitude = e.latitude
                 /\ other.longitude = e.longitude
                 /\ other.accuracy_source = e.accuracy_source
                 /\ other.accuracy_radius_m = e.accuracy_radius_m

C4_Witness ==
  \E c \in Calls :
    /\ Persisted(c) /\ call[c].type = "location" /\ ClientCoords(c)
    /\ TypeOf(ExtraAcc(c)) = "number"
    /\ call[c].ipg # Null
    /\ call[c].ipg[1].lat = Some(4)
    /\ RowOf(c).latitude = Some(0)

\* C5: a call for an existing link whose geo lookup failed or timed out has
\* returned without error and, unless the storage itself refused the insert,
\* has persisted one row with country, region, city and provider null and,
\* when it carried no client coordinates, latitude, longitude and
\* accuracy_source null.
C5_GeoFailureKeepsEvent ==
  \A c \in Calls :
    (call[c].resp # Null /\ call[c].resp[1] \in FailedAnswers /\ call[c].existed
       /\ call[c].pc # "insert") =>
      /\ Returned(c)
      /\ \/ call[c].logged \in StorageErrors
         \/ /\ Persisted(c)
            /\ call[c].logged = "none"
            /\ Cardinality({i \in 1..Len(events) : events[i] = RowOf(c)}) = 1
            /\ RowOf(c).link_slug = call[c].slug
            /\ RowOf(c).type = call[c].type
            /\ RowOf(c).country = Null
            /\ RowOf(c).region = Null
            /\ RowOf(c).city = Null
            /\ RowOf(c).ip_asn = Null
            /\ NoClientCoords(c) =>
                 /\ RowOf(c).latitude = Null
                 /\ RowOf(c).longitude = Null
                 /\ RowOf(c).accuracy_source = Null

C5_Witness ==
  \E c \in Calls :
    /\ call[c].resp = Some(GeoFailure("timeout"))
    /\ call[c].pc = "status200"
    /\ Persisted(c)
    /\ RowOf(c).country = Null
    /\ RowOf(c).accuracy_source = Null
\* C6: the rows of concurrent calls for one link never collide: every call
\* whose insert was carried out owns one row of its own, holding the fields
\* that call assembled; the table holds no other row; and once all MaxCalls
\* calls have come back without a storage failure it holds MaxCalls rows.
C6_ConcurrentCallsKeepTheirRows ==
  LET ok == {c \in Calls : Returned(c) /\ call[c].logged = "none"}
  IN /\ \A c \in ok :
          /\ call[c].row \in 1..Len(events)
          /\ RowOf(c) = EventParams(call[c].slug, call[c].type, call[c].ip, call[c].ipg,
                                    call[c].extra)
          /\ \A d \in ok \ {c} : call[d].row # call[c].row
     /\ Len(events) = Cardinality(ok)
     /\ ok = Calls => Len(events) = MaxCalls

C6_Witness ==
  /\ \A c \in Calls : call[c].pc \in {"status200", "status204"} /\ call[c].logged = "none"
  /\ Len(events) = MaxCalls
  /\ call[1].row > call[2].row
  /\ call[1].type # call[2].type

\* C7: every persisted event names a link of the links table (links are
\* never deleted, so a link that is there now was there at the write), for
\* all three entry points; a call whose slug is missing or names no link has
\* persisted nothing.
C7_EventsReferenceLinks ==
  /\ \A i \in 1..Len(events) :
       /\ TypeOf(events[i].link_slug) = "string"
       /\ events[i].link_slug[2] \in DOMAIN links
  /\ \A c \in Calls :
       (TypeOf(call[c].slug) # "string" \/ call[c].slug[2] \notin DOMAIN links)
         => ~Persisted(c)

C7_Witness ==
  \E c \in Calls :
    /\ call[c].type = "device"
    /\ call[c].pc = "status204"
    /\ call[c].slug = Str("b")
    /\ "a" \in DOMAIN links /\ "b" \notin DOMAIN links
    /\ call[c].logged = "constraint"
    /\ events = <<>>

BackendInUse == Backend(dbType, mysqlPool, sqliteDb)

\* C8 as stated: once selection is done, an explicitly configured backend is
\* the one in use whatever the probe said; with none configured MySQL is in
\* use if the probe succeeded and SQLite if it failed.
C8_ExplicitConfigurationWins ==
  initPc = "done" =>
    IF env # Null THEN BackendInUse = env[1]
    ELSE BackendInUse = (IF probe = "ok" THEN "mysql" ELSE "sqlite")

\* the rule initDatabase follows once it is done
C8_SelectionRule ==
  initPc = "done" =>
    IF env = Some("sqlite") THEN BackendInUse = "sqlite" /\ probe = "none"
    ELSE /\ probe \in {"ok", "failed"}
         /\ BackendInUse = (IF probe = "ok" THEN "mysql" ELSE "sqlite")

\* C8 as amended: the backend is selected once; DB_TYPE=sqlite selects SQLite
\* without a probe; any other configuration, an explicit DB_TYPE=mysql
\* included, selects MySQL if the probe succeeded and SQLite if it failed;
\* and once selection is done dbType, mysqlPool and sqliteDb never change
\* again, whatever later storage operations do.
C8_BackendSelectedOnce ==
  /\ [](C8_SelectionRule)
  /\ [][initPc = "done" => UNCHANGED <<initPc, dbType, mysqlPool, sqliteDb>>]_vars

C8_Witness ==
  /\ initPc = "done"
  /\ env = Some("mysql")
  /\ probe = "failed"
  /\ BackendInUse = "sqlite"
  /\ call[1].logged = "engine"

\* C9: geoFromIP never lets an exception out; a timeout, a non-success
\* status, a malformed body and a missing or unparsable loc all give null;
\* an enrichment always has a numeric latitude and a numeric longitude.
C9_GeoFailuresCollapseToAbsent ==
  \A c \in Calls : call[c].resp # Null =>
    LET r == call[c].resp[1]
    IN /\ call[c].logged # "geo"
       /\ r \in FailedAnswers => call[c].ipg = Null
       /\ (r.kind = "json" /\ ~r.j.isNull /\ TypeOf(r.j.loc) # "string")
            => call[c].ipg = Null
       /\ call[c].ipg # Null =>
            (call[c].ipg[1].lat # Null /\ call[c].ipg[1].lon # Null)

IsLoopback(ip) == ip = IpV6Loopback \/ (Len(ip) > 0 /\ ip[1] = "127.")
IsLoopbackMapped(ip) == StartsWith(ip, <<"::ffff:", "127.">>)
IsPrivate(ip) ==
  \/ Len(ip) > 0 /\ ip[1] \in {"10.", "192.168."}
  \/ Len(ip) > 1 /\ ip[1] = "::ffff:" /\ ip[2] \in {"10.", "192.168."}

\* C10: for a loopback, loopback-mapped or private address geoFromIP
\* returns null and issues no request to the geo service.
C10_LocalAddressesShortCircuit ==
  \A c \in Calls :
    (call[c].pc \notin {"idle", "status404", "status500"}
       /\ (IsLoopback(call[c].ip) \/ IsLoopbackMapped(call[c].ip) \/ IsPrivate(call[c].ip)))
      => (~call[c].fetched /\ call[c].ipg = Null)

\* C11: attaching an image to a slug that names no link fails (the caller is
\* told so) and leaves the links as they were; attaching image p to an
\* existing link succeeds and the link then reads back with image path p.
C11_AttachImage ==
  [][\A slug \in Slugs, file \in {"1.png", "2.png"} :
       Upload(Some(slug), Some(file)) /\ Backend(dbType, mysqlPool, sqliteDb) # "none"
       => IF slug \in DOMAIN links
          THEN /\ reply'.status = 200
               /\ links'[slug].image_path = Some(<<"/uploads/", file>>)
          ELSE /\ reply'.status # 200
               /\ links' = links]_vars

\* C12: a link keeps its slug and its title from creation on; its image
\* path is null from creation until the first attach; and once the image
\* path is set no later attach changes it to a different value.
C12_LinkLifecycle ==
  [][/\ \A s \in DOMAIN links :
          /\ s \in DOMAIN links'
          /\ links'[s].title = links[s].title
          /\ links[s].image_path # Null => links'[s].image_path = links[s].image_path
          /\ links'[s].image_path # links[s].image_path => reply'.op = "upload"
     /\ \A s \in DOMAIN links' \ DOMAIN links : links'[s].image_path = Null]_vars

\* the keys of extra that carry the position the client measured
CoordinateKeys == {"latitude", "longitude", "accuracy", "accuracyRadiusM"}
\* the facts call c supplied besides coordinates and the slug that addresses
\* the link: none for a view, the device map, the rest of a location report
ClientFacts(c) ==
  CASE call[c].type = "device" ->
         SelectSeq(Get(call[c].extra, "deviceMeta")[2], LAMBDA f : f[1] # "slug")
    [] call[c].type = "location" ->
         SelectSeq(call[c].extra, LAMBDA f : f[1] \notin CoordinateKeys)
    [] OTHER -> <<>>

\* C13: the payload of a persisted event is non-null exactly when the call
\* supplied a non-empty set of non-coordinate client facts, and is then the
\* serialization of those facts and nothing else; a view and a device report
\* with an empty map of facts persist a null payload.
C13_PayloadIsClientFacts ==
  \A c \in Calls :
    Persisted(c) =>
      RowOf(c).payload = IF Len(ClientFacts(c)) > 0
                         THEN Some(Stringify(<<"object", ClientFacts(c)>>))
                         ELSE Null

\* C14: within one call the geo resolution has come back before the insert
\* is issued, and the row holds what it came back with; and for any two
\* calls on one link the order of their persisted rows (by surrogate id) is
\* the order in which their inserts were executed, whatever the order in
\* which the calls began and in which their geo resolutions came back.
C14_RowsInInsertOrder ==
  /\ \A c \in Calls :
       call[c].issued > 0 =>
         /\ call[c].settled > 0
         /\ call[c].fetched => call[c].resp # Null
         /\ Persisted(c) /\ call[c].fetched =>
              RowOf(c) = EventParams(call[c].slug, call[c].type, call[c].ip,
                                     GeoFromResponse(call[c].ip, call[c].resp[1]).ipg,
                                     call[c].extra)
  /\ \A c, d \in Calls :
       Persisted(c) /\ Persisted(d) =>
         (call[c].row < call[d].row <=> call[c].issued < call[d].issued)

C14_Witness ==
  /\ Persisted(1) /\ Persisted(2)
  /\ call[1].begun < call[2].begun
  /\ call[1].settled < call[2].settled
  /\ call[1].issued > call[2].issued
  /\ call[1].row > call[2].row

\* the ids of the stored events of a link
EventsOf(slug) == {i \in 1..Len(events) : events[i].link_slug = Str(slug)}
\* the ids of the rows of the last answer of GET /api/events
Listed == {reply.rows[k] : k \in 1..Len(reply.rows)}

\* C15: listing the events of a slug returns only events of that slug, each
\* once, ordered by occurred_at descending; it returns min(ListLimit, count)
\* rows, never more than ListLimit, and they are the most recent ones: no
\* event of the slug that is left out is later than one that is returned.
C15_ListEvents ==
  reply.op = "events" /\ reply.status = 200 =>
    LET slug == reply.slug[1]
        n == Len(reply.rows)
        count == Cardinality(EventsOf(slug))
    IN /\ Listed \subseteq EventsOf(slug)
       /\ Cardinality(Listed) = n
       /\ \A k \in 1..(n - 1) :
            occurredAt[reply.rows[k]] >= occurredAt[reply.rows[k + 1]]
       /\ n = IF count < ListLimit THEN count ELSE ListLimit
       /\ n <= ListLimit
       /\ \A i \in EventsOf(slug) \ Listed :
            n > 0 /\ occurredAt[i] <= occurredAt[reply.rows[n]]

C15_Witness ==
  /\ reply.op = "events" /\ reply.status = 200 /\ reply.slug = Some("a")
  /\ Cardinality(EventsOf("a")) > ListLimit
  /\ EventsOf("b") # {}
  /\ Len(reply.rows) = ListLimit
  /\ reply.rows[1] = Len(events)
  /\ EventsOf("a") \ Listed = {1}

\* C16: no request is served against an unselected backend: however start-up
\* and requests interleave, every storage operation finds an initialized
\* backend, so no visit event is dropped with 'Database not initialized', no
\* viewer page fails on its link lookup, and no link creation fails for it.
C16_BackendReadyForEveryRequest ==
  /\ \A c \in Calls :
       /\ call[c].logged # "Database not initialized"
       /\ call[c].pc # "status500"
  /\ reply.status = 500 => Backend(dbType, mysqlPool, sqliteDb) # "none"

====
